---- MODULE Spec2Model ----
(***************************************************************************)
(* A model of the RISC-V code generator of the toyc compiler               *)
(* (src/src/codegen/riscv.cpp).                                            *)
(*                                                                         *)
(* The generator is a visitor over the abstract syntax tree.  Its members  *)
(* (output, functions, stackOffset, labelCounter, localVariables,          *)
(* currentFunction, optimizationsEnabled, constantValues) are the state;   *)
(* generate() is the operation.  The visit methods are operators that take *)
(* the members as a record g and return the members after the visit.  An   *)
(* expression is lowered in one step; the visit of a statement, a function *)
(* or the unit is an activation on a stack, and one step runs the top      *)
(* activation up to its next child visit or to its return.                 *)
(*                                                                         *)
(* An emitted line is a tuple of its mnemonic and operands:                *)
(*   "li t0, 5"         is <<"li", "t0", 5>>                               *)
(*   "lw t0, -4(fp)"    is <<"lw", "t0", -4, "fp">>                        *)
(*   "addi sp, sp, -4"  is <<"addi", "sp", "sp", -4>>                      *)
(*   "else0:"           is <<":", "else0">>                                *)
(* Label names are the strings the code builds (prefix + to_string(n)).    *)
(***************************************************************************)
EXTENDS Integers, Sequences, FiniteSets, TLC

VARIABLES
    unit,                 \* the CompilationUnit the caller hands to generate
    funcTable,            \* the signature table the caller hands to generate
    optimizationsEnabled, \* member: the optimization switch
    constantValues,       \* member: known-constants table (only read here)
    output,               \* member: accumulated assembly text, one line per element
    functions,            \* member: copy of the signature table
    stackOffset,          \* member: last frame offset handed out
    labelCounter,         \* member: seed of newLabel
    localVariables,       \* member: frame table, name -> offset
    currentFunction,      \* member: name of the function being lowered
    stack,                \* the visit methods in progress, innermost last
    log,                  \* history: one record per finished accept() of the last generate
    issued,               \* history: the labels newLabel returned in the last generate
    returned,             \* history: what each generate call returned, in order
    calls,                \* number of generate calls made so far
    regs,                 \* target machine: registers
    mem,                  \* target machine: memory words, address -> value
    ip                    \* target machine: index in output of the next line to run

vars == <<unit, funcTable, optimizationsEnabled, constantValues, output, functions,
          stackOffset, labelCounter, localVariables, currentFunction, stack, log,
          issued, returned, calls, regs, mem, ip>>

(***************************************************************************)
(* Abstract syntax tree (the nodes the visitor is called on).              *)
(***************************************************************************)
Null == [type |-> "Null"]          \* an absent optional child (nullptr)

Num(v) == [type |-> "NumberLiteral", value |-> v]
Id(n) == [type |-> "Identifier", name |-> n]
Un(o, e) == [type |-> "UnaryExpression", op |-> o, operand |-> e]
Bin(o, l, r) == [type |-> "BinaryExpression", op |-> o, left |-> l, right |-> r]
Call(f, args) == [type |-> "FunctionCall", functionName |-> f, arguments |-> args]
Decl(n, e) == [type |-> "VariableDeclaration", name |-> n, initializer |-> e]
Assign(n, e) == [type |-> "AssignmentStatement", variable |-> n, value |-> e]
Block(ss) == [type |-> "Block", statements |-> ss]
If(c, t, e) == [type |-> "IfStatement", condition |-> c, thenStatement |-> t,
                elseStatement |-> e]
While(c, b) == [type |-> "WhileStatement", condition |-> c, body |-> b]
Break == [type |-> "BreakStatement"]
Continue == [type |-> "ContinueStatement"]
Return(e) == [type |-> "ReturnStatement", value |-> e]
ExprStmt(e) == [type |-> "ExpressionStatement", expression |-> e]
Func(n, b) == [type |-> "FunctionDefinition", name |-> n, body |-> b]
Unit(fs) == [type |-> "CompilationUnit", functions |-> fs]

ArithOps == {"ADD", "SUB", "MUL", "DIV", "MOD"}
CompareOps == {"LT", "LE", "GT", "GE", "EQ", "NE"}
LogicOps == {"AND", "OR"}
BinaryOps == ArithOps \cup CompareOps \cup LogicOps
UnaryOps == {"PLUS", "MINUS", "NOT"}

ExprTypes == {"NumberLiteral", "Identifier", "UnaryExpression", "BinaryExpression",
              "FunctionCall"}

EmptyMap == [n \in {} |-> 0]

(***************************************************************************)
(* C++ int arithmetic: / truncates toward zero, % takes the dividend's     *)
(* sign.  The literal ranges used below stay far from INT_MAX, so no       *)
(* signed overflow (undefined behaviour) arises in a fold.                 *)
(***************************************************************************)
Abs(x) == IF x < 0 THEN -x ELSE x

CDiv(a, b) == IF (a < 0) = (b < 0) THEN Abs(a) \div Abs(b) ELSE -(Abs(a) \div Abs(b))

CRem(a, b) == a - b * CDiv(a, b)

(***************************************************************************)
(* Emission helpers.                                                       *)
(***************************************************************************)
emit(g, instruction) == [g EXCEPT !.output = Append(@, instruction)]

emitAll(g, instructions) == [g EXCEPT !.output = @ \o instructions]

emitLabel(g, label) == [g EXCEPT !.output = Append(@, <<":", label>>)]

\* return prefix + std::to_string(labelCounter);   (the counter is not advanced)
newLabelNoIncrement(g, prefix) ==
    LET label == prefix \o ToString(g.labelCounter)
    IN  [label |-> label,
         g |-> [g EXCEPT !.issued = Append(@, [label |-> label,
                                               counter |-> g.labelCounter])]]

\* return prefix + std::to_string(labelCounter++);
\* (history only: the label and the counter value it was built from go to issued)
newLabel(g, prefix) ==
    LET label == prefix \o ToString(g.labelCounter)
    IN  [label |-> label,
         g |-> [g EXCEPT !.labelCounter = @ + 1,
                         !.issued = Append(@, [label |-> label,
                                               counter |-> g.labelCounter])]]

(***************************************************************************)
(* Constant evaluator.                                                     *)
(***************************************************************************)
isConstantExpression(g, expr) ==
    IF expr.type = "Null" THEN FALSE
    ELSE IF expr.type = "NumberLiteral" THEN TRUE
    ELSE IF expr.type = "Identifier" THEN expr.name \in DOMAIN g.constantValues
    ELSE FALSE

evaluateConstantExpressionNoLookup(g, expr) ==
    IF expr.type = "NumberLiteral" THEN expr.value ELSE 0

evaluateConstantExpression(g, expr) ==
    IF expr.type = "NumberLiteral" THEN expr.value
    ELSE IF expr.type = "Identifier" /\ expr.name \in DOMAIN g.constantValues
         THEN g.constantValues[expr.name]
    ELSE 0

\* A fold whose DIV rounds toward minus infinity instead of toward zero.
foldSwitchFloorDiv(op, leftVal, rightVal) ==
    CASE op = "ADD" -> [folded |-> TRUE, result |-> leftVal + rightVal]
      [] op = "SUB" -> [folded |-> TRUE, result |-> leftVal - rightVal]
      [] op = "MUL" -> [folded |-> TRUE, result |-> leftVal * rightVal]
      [] op = "DIV" -> IF rightVal # 0
                       THEN [folded |-> TRUE, result |-> leftVal \div rightVal]
                       ELSE [folded |-> FALSE, result |-> 0]
      [] op = "MOD" -> IF rightVal # 0
                       THEN [folded |-> TRUE, result |-> CRem(leftVal, rightVal)]
                       ELSE [folded |-> FALSE, result |-> 0]
      [] OTHER -> [folded |-> FALSE, result |-> 0]

\* The switch of optimizeConstantFolding: folded is FALSE where the code returns.
foldSwitch(op, leftVal, rightVal) ==
    CASE op = "ADD" -> [folded |-> TRUE, result |-> leftVal + rightVal]
      [] op = "SUB" -> [folded |-> TRUE, result |-> leftVal - rightVal]
      [] op = "MUL" -> [folded |-> TRUE, result |-> leftVal * rightVal]
      [] op = "DIV" -> IF rightVal # 0
                       THEN [folded |-> TRUE, result |-> CDiv(leftVal, rightVal)]
                       ELSE [folded |-> FALSE, result |-> 0]
      [] op = "MOD" -> IF rightVal # 0
                       THEN [folded |-> TRUE, result |-> CRem(leftVal, rightVal)]
                       ELSE [folded |-> FALSE, result |-> 0]
      [] OTHER -> [folded |-> FALSE, result |-> 0]

\* The instruction(s) the switch of visit(BinaryExpression&) emits for an operator.
operatorInstructions(op) ==
    CASE op = "ADD" -> << <<"add", "t0", "t0", "t1">> >>
      [] op = "SUB" -> << <<"sub", "t0", "t0", "t1">> >>
      [] op = "MUL" -> << <<"mul", "t0", "t0", "t1">> >>
      [] op = "DIV" -> << <<"div", "t0", "t0", "t1">> >>
      [] op = "MOD" -> << <<"rem", "t0", "t0", "t1">> >>
      [] op = "LT" -> << <<"slt", "t0", "t0", "t1">> >>
      [] op = "LE" -> << <<"slt", "t2", "t1", "t0">>, <<"xori", "t0", "t2", 1>> >>
      [] op = "GT" -> << <<"slt", "t0", "t1", "t0">> >>
      [] op = "GE" -> << <<"slt", "t2", "t0", "t1">>, <<"xori", "t0", "t2", 1>> >>
      [] op = "EQ" -> << <<"sub", "t0", "t0", "t1">>, <<"seqz", "t0", "t0">> >>
      [] op = "NE" -> << <<"sub", "t0", "t0", "t1">>, <<"snez", "t0", "t0">> >>
      [] op = "AND" -> << <<"and", "t0", "t0", "t1">> >>
      [] op = "OR" -> << <<"or", "t0", "t0", "t1">> >>
      [] OTHER -> << >>

\* "addi sp, sp, -4" then "sw <reg>, 0(sp)": the push every expression ends with.
PushT0 == << <<"addi", "sp", "sp", -4>>, <<"sw", "t0", 0, "sp">> >>


(***************************************************************************)
(* The visitor over expressions.  accept(g, node) is node.accept(this)    *)
(* for an expression node: it dispatches on the node's dynamic type to the *)
(* visit overload, and (history only) appends to g.log which node was      *)
(* visited, which lines of output the visit emitted (from+1 .. to), and    *)
(* the frame table at entry.                                               *)
(***************************************************************************)
RECURSIVE accept(_, _)
RECURSIVE acceptEach(_, _)
RECURSIVE optimizeConstantFolding(_, _)
RECURSIVE visitBinaryExpression(_, _)
RECURSIVE visitUnaryExpression(_, _)
RECURSIVE visitFunctionCall(_, _)

\* for (const auto& arg : node.arguments) arg->accept(this);
acceptEach(g, nodes) ==
    IF nodes = << >> THEN g ELSE acceptEach(accept(g, Head(nodes)), Tail(nodes))

optimizeConstantFolding(g, node) ==
    IF ~g.optimizationsEnabled THEN g
    ELSE IF isConstantExpression(g, node.left) /\ isConstantExpression(g, node.right)
    THEN LET leftVal == evaluateConstantExpression(g, node.left)
             rightVal == evaluateConstantExpression(g, node.right)
             f == foldSwitch(node.op, leftVal, rightVal)
         IN  IF f.folded
             THEN emitAll(g, << <<"li", "t0", f.result>> >> \o PushT0)
             ELSE g
    ELSE IF isConstantExpression(g, node.right)
    THEN LET rightVal == evaluateConstantExpression(g, node.right)
         IN  IF node.op = "ADD" /\ rightVal = 0 THEN accept(g, node.left)
             ELSE IF node.op = "MUL" /\ rightVal = 1 THEN accept(g, node.left)
             ELSE IF node.op = "MUL" /\ rightVal = 0
                  THEN emitAll(g, << <<"li", "t0", 0>> >> \o PushT0)
             ELSE g
    ELSE g

visitBinaryExpression(g, node) ==
    IF g.optimizationsEnabled
    THEN optimizeConstantFolding(g, node)
    ELSE LET g1 == accept(g, node.left)
             g2 == accept(g1, node.right)
         IN  emitAll(g2, << <<"lw", "t1", 0, "sp">>,
                            <<"addi", "sp", "sp", 4>>,
                            <<"lw", "t0", 0, "sp">> >>
                         \o operatorInstructions(node.op)
                         \o << <<"sw", "t0", 0, "sp">> >>)

visitUnaryExpression(g, node) ==
    LET g1 == accept(g, node.operand)
        apply == CASE node.op = "PLUS" -> << >>
                   [] node.op = "MINUS" -> << <<"neg", "t0", "t0">> >>
                   [] node.op = "NOT" -> << <<"seqz", "t0", "t0">> >>
                   [] OTHER -> << >>
    IN  emitAll(g1, << <<"lw", "t0", 0, "sp">> >> \o apply
                    \o << <<"sw", "t0", 0, "sp">> >>)

visitNumberLiteral(g, node) ==
    emitAll(g, << <<"li", "t0", node.value>> >> \o PushT0)

visitIdentifier(g, node) ==
    IF node.name \in DOMAIN g.localVariables
    THEN emitAll(g, << <<"lw", "t0", g.localVariables[node.name], "fp">> >> \o PushT0)
    ELSE emitAll(g, << <<"la", "t0", node.name>>, <<"lw", "t0", 0, "t0">> >> \o PushT0)

visitFunctionCall(g, node) ==
    LET g1 == acceptEach(g, node.arguments)
    IN  emitAll(g1, << <<"call", node.functionName>>,
                       <<"addi", "sp", "sp", Len(node.arguments) * 4>>,
                       <<"addi", "sp", "sp", -4>>,
                       <<"sw", "a0", 0, "sp">> >>)

accept(g, node) ==
    LET r == CASE node.type = "NumberLiteral" -> visitNumberLiteral(g, node)
               [] node.type = "Identifier" -> visitIdentifier(g, node)
               [] node.type = "UnaryExpression" -> visitUnaryExpression(g, node)
               [] node.type = "BinaryExpression" -> visitBinaryExpression(g, node)
               [] node.type = "FunctionCall" -> visitFunctionCall(g, node)
    IN  [r EXCEPT !.log = Append(@, [node |-> node,
                                     from |-> Len(g.output),
                                     to |-> Len(r.output),
                                     localVariables |-> g.localVariables,
                                     stackOffset |-> g.stackOffset])]

(***************************************************************************)
(* The visitor over statements, functions and the unit.  A visit of one of *)
(* these nodes is an activation on g.stack: the node, how far the visit    *)
(* method has got (pc counts the child visits it has made), the labels it  *)
(* holds in its locals, and (history only) the length of output, the frame *)
(* table and the offset counter when it was entered.  Each visit operator  *)
(* below runs the method of the top activation from pc up to its next      *)
(* child visit, where it enters the child, or up to its end, where it      *)
(* leaves.                                                                 *)
(***************************************************************************)
Top(g) == g.stack[Len(g.stack)]

\* node->accept(this) on a statement, function or unit node: a new activation.
enter(g, node) ==
    [g EXCEPT !.stack = Append(@, [node |-> node,
                                   pc |-> 0,
                                   labels |-> << >>,
                                   from |-> Len(g.output),
                                   localVariables |-> g.localVariables,
                                   stackOffset |-> g.stackOffset])]

\* The visit method of the top activation returns.
\* (history only: the visit goes to the log, as for an expression)
leave(g) ==
    [g EXCEPT !.stack = SubSeq(@, 1, Len(@) - 1),
              !.log = Append(@, [node |-> Top(g).node,
                                 from |-> Top(g).from,
                                 to |-> Len(g.output),
                                 localVariables |-> Top(g).localVariables,
                                 stackOffset |-> Top(g).stackOffset])]

\* The top activation has made its pc-th child visit and holds these labels.
advance(g, pc, labels) ==
    [g EXCEPT !.stack[Len(g.stack)].pc = pc,
              !.stack[Len(g.stack)].labels = labels]

visitAssignmentStatement(g, node) ==
    LET g1 == accept(g, node.value)
        g2 == emitAll(g1, << <<"lw", "t0", 0, "sp">>, <<"addi", "sp", "sp", 4>> >>)
    IN  IF node.variable \in DOMAIN g2.localVariables
        THEN leave(emit(g2, <<"sw", "t0", g2.localVariables[node.variable], "fp">>))
        ELSE leave(emitAll(g2, << <<"la", "t1", node.variable>>,
                                  <<"sw", "t0", 0, "t1">> >>))

\* localVariables.insert({name, stackOffset}): an existing entry is kept.
allocateLocalInsert(g, name) ==
    LET offset == g.stackOffset - 4
    IN  [g EXCEPT !.stackOffset = offset,
                  !.localVariables =
                      [n \in DOMAIN @ \cup {name} |->
                          IF n \in DOMAIN @ THEN @[n] ELSE offset]]

\* stackOffset -= 4; localVariables[node.name] = stackOffset;
allocateLocal(g, name) ==
    LET offset == g.stackOffset - 4
    IN  [g EXCEPT !.stackOffset = offset,
                  !.localVariables =
                      [n \in DOMAIN @ \cup {name} |-> IF n = name THEN offset ELSE @[n]]]

visitVariableDeclaration(g, node) ==
    LET g1 == IF node.initializer # Null
              THEN emitAll(accept(g, node.initializer),
                           << <<"lw", "t0", 0, "sp">>, <<"addi", "sp", "sp", 4>> >>)
              ELSE emit(g, <<"li", "t0", 0>>)
        g2 == allocateLocal(g1, node.name)
    IN  leave(emit(g2, <<"sw", "t0", g2.stackOffset, "fp">>))

\* for (const auto& stmt : node.statements) stmt->accept(this);
visitBlock(g, node) ==
    LET pc == Top(g).pc
    IN  IF pc < Len(node.statements)
        THEN enter(advance(g, pc + 1, << >>), node.statements[pc + 1])
        ELSE leave(g)

visitIfStatement(g, node) ==
    LET pc == Top(g).pc
        l1 == newLabel(g, "else")
        l2 == newLabel(l1.g, "endif")
        elseLabel == IF pc = 0 THEN l1.label ELSE Top(g).labels[1]
        endLabel == IF pc = 0 THEN l2.label ELSE Top(g).labels[2]
    IN  CASE pc = 0 ->
                 LET g1 == accept(l2.g, node.condition)
                     g2 == emitAll(g1, << <<"lw", "t0", 0, "sp">>,
                                          <<"addi", "sp", "sp", 4>>,
                                          <<"beqz", "t0", elseLabel>> >>)
                 IN  enter(advance(g2, 1, <<elseLabel, endLabel>>), node.thenStatement)
          [] pc = 1 ->
                 LET g4 == emitLabel(emit(g, <<"j", endLabel>>), elseLabel)
                 IN  IF node.elseStatement # Null
                     THEN enter(advance(g4, 2, <<elseLabel, endLabel>>),
                                node.elseStatement)
                     ELSE leave(emitLabel(g4, endLabel))
          [] pc = 2 -> leave(emitLabel(g, endLabel))

visitWhileStatement(g, node) ==
    LET pc == Top(g).pc
        l1 == newLabel(g, "loop")
        l2 == newLabel(l1.g, "endloop")
        loopLabel == IF pc = 0 THEN l1.label ELSE Top(g).labels[1]
        endLabel == IF pc = 0 THEN l2.label ELSE Top(g).labels[2]
    IN  CASE pc = 0 ->
                 LET g1 == accept(emitLabel(l2.g, loopLabel), node.condition)
                     g2 == emitAll(g1, << <<"lw", "t0", 0, "sp">>,
                                          <<"addi", "sp", "sp", 4>>,
                                          <<"beqz", "t0", endLabel>> >>)
                 IN  enter(advance(g2, 1, <<loopLabel, endLabel>>), node.body)
          [] pc = 1 -> leave(emitLabel(emit(g, <<"j", loopLabel>>), endLabel))

visitBreakStatement(g, node) == leave(emit(g, <<"j", "break_label">>))

visitContinueStatement(g, node) == leave(emit(g, <<"j", "continue_label">>))

generatePrologue(g, funcName, localSize) ==
    emitAll(emitLabel(g, funcName),
            << <<"addi", "sp", "sp", -localSize>>,
               <<"sw", "ra", localSize - 4, "sp">>,
               <<"sw", "fp", localSize - 8, "sp">>,
               <<"addi", "fp", "sp", localSize>> >>)

generateEpilogue(g) ==
    emitAll(g, << <<"lw", "ra", -4, "fp">>,
                  <<"lw", "fp", -8, "fp">>,
                  <<"addi", "sp", "sp", 8>>,
                  <<"ret">> >>)

visitReturnStatement(g, node) ==
    LET g1 == IF node.value # Null
              THEN emitAll(accept(g, node.value),
                           << <<"lw", "a0", 0, "sp">>, <<"addi", "sp", "sp", 4>> >>)
              ELSE emit(g, <<"li", "a0", 0>>)
    IN  leave(generateEpilogue(g1))

visitExpressionStatement(g, node) ==
    leave(emit(accept(g, node.expression), <<"addi", "sp", "sp", 4>>))

visitFunctionDefinition(g, node) ==
    LET pc == Top(g).pc
    IN  CASE pc = 0 ->
                 LET g0 == [g EXCEPT !.currentFunction = node.name,
                                     !.localVariables = EmptyMap,
                                     !.stackOffset = 0]
                     localSize == 8
                     g1 == generatePrologue(g0, node.name, localSize)
                 IN  enter(advance(g1, 1, << >>), node.body)
          [] pc = 1 -> leave(generateEpilogue(g))

\* for (const auto& func : node.functions) func->accept(this);
visitCompilationUnit(g, node) ==
    LET pc == Top(g).pc
    IN  IF pc < Len(node.functions)
        THEN enter(advance(g, pc + 1, << >>), node.functions[pc + 1])
        ELSE leave(g)

\* generate without "labelCounter = 0".
generateKeepLabelCounter(g, u, table) ==
    LET g0 == [g EXCEPT !.output = << >>,
                        !.functions = table,
                        !.stackOffset = 0,
                        !.log = << >>,
                        !.issued = << >>]
        g1 == emitAll(g0, << <<".data">>, <<".text">>, <<".global", "main">> >>)
    IN  enter(g1, u)

\* generate, up to unit.accept(this); "return output" is the step in which
\* the unit's visit leaves.
generate(g, u, table) ==
    LET g0 == [g EXCEPT !.output = << >>,
                        !.functions = table,
                        !.stackOffset = 0,
                        !.labelCounter = 0,
                        !.log = << >>,
                        !.issued = << >>]
        g1 == emitAll(g0, << <<".data">>, <<".text">>, <<".global", "main">> >>)
    IN  enter(g1, u)


(***************************************************************************)
(* The generator object and its operations.                                *)
(***************************************************************************)
Self == [output |-> output, functions |-> functions, stackOffset |-> stackOffset,
         labelCounter |-> labelCounter, localVariables |-> localVariables,
         currentFunction |-> currentFunction,
         optimizationsEnabled |-> optimizationsEnabled,
         constantValues |-> constantValues, stack |-> stack,
         log |-> log, issued |-> issued]

\* Bounds of the inputs.
MaxLit == 2        \* literals range over -MaxLit .. MaxLit
MaxArgs == 2       \* a call has at most MaxArgs arguments
MaxCalls == 3      \* generate is called at most MaxCalls times on one generator

\* Known-constants tables the semantic layer may have left in the generator.
ConstTables == {EmptyMap} \cup {[n \in {"k"} |-> v] : v \in 0..2}

FuncTables == {EmptyMap, [n \in {"f"} |-> 1]}

\* The state after construction: empty members; the optimization switch and
\* the known-constants table are whatever the caller configured.
InitMembers ==
    /\ optimizationsEnabled \in BOOLEAN
    /\ constantValues \in ConstTables
    /\ output = << >>
    /\ functions = EmptyMap
    /\ stackOffset = 0
    /\ labelCounter = 0
    /\ localVariables = EmptyMap
    /\ currentFunction = ""
    /\ stack = << >>
    /\ log = << >>
    /\ issued = << >>
    /\ returned = << >>
    /\ calls = 0
    /\ regs = EmptyMap
    /\ mem = EmptyMap
    /\ ip = 0

\* The members after a step of the generator.
Become(r) ==
    /\ output' = r.output
    /\ functions' = r.functions
    /\ stackOffset' = r.stackOffset
    /\ labelCounter' = r.labelCounter
    /\ localVariables' = r.localVariables
    /\ currentFunction' = r.currentFunction
    /\ stack' = r.stack
    /\ log' = r.log
    /\ issued' = r.issued

\* std::string generate(CompilationUnit& unit, const unordered_map& funcTable)
\* is called (no visit is in progress: the generator is not re-entered).
Generate(u, table) ==
    /\ stack = << >>
    /\ calls < MaxCalls
    /\ Become(generate(Self, u, table))
    /\ unit' = u
    /\ funcTable' = table
    /\ calls' = calls + 1
    /\ ip' = 0
    /\ UNCHANGED <<optimizationsEnabled, constantValues, returned, regs, mem>>

\* The visit method of the top activation is the overload for this node type.
Visiting(type) == stack # << >> /\ stack[Len(stack)].node.type = type

\* The top activation runs to its next child visit or to its end.
Run(r) ==
    /\ Become(r)
    /\ UNCHANGED <<unit, funcTable, optimizationsEnabled, constantValues, returned,
                   calls, regs, mem, ip>>

\* When the unit's visit leaves, generate returns output.
VisitCompilationUnit ==
    /\ Visiting("CompilationUnit")
    /\ LET r == visitCompilationUnit(Self, Top(Self).node)
       IN  /\ Become(r)
           /\ returned' = IF r.stack = << >>
                          THEN Append(returned, [unit |-> unit, table |-> funcTable,
                                                 text |-> r.output])
                          ELSE returned
    /\ UNCHANGED <<unit, funcTable, optimizationsEnabled, constantValues, calls,
                   regs, mem, ip>>

VisitFunctionDefinition ==
    Visiting("FunctionDefinition") /\ Run(visitFunctionDefinition(Self, Top(Self).node))

VisitBlock ==
    Visiting("Block") /\ Run(visitBlock(Self, Top(Self).node))

VisitVariableDeclaration ==
    Visiting("VariableDeclaration") /\ Run(visitVariableDeclaration(Self, Top(Self).node))

VisitAssignmentStatement ==
    Visiting("AssignmentStatement") /\ Run(visitAssignmentStatement(Self, Top(Self).node))

VisitIfStatement ==
    Visiting("IfStatement") /\ Run(visitIfStatement(Self, Top(Self).node))

VisitWhileStatement ==
    Visiting("WhileStatement") /\ Run(visitWhileStatement(Self, Top(Self).node))

VisitBreakStatement ==
    Visiting("BreakStatement") /\ Run(visitBreakStatement(Self, Top(Self).node))

VisitContinueStatement ==
    Visiting("ContinueStatement") /\ Run(visitContinueStatement(Self, Top(Self).node))

VisitReturnStatement ==
    Visiting("ReturnStatement") /\ Run(visitReturnStatement(Self, Top(Self).node))

VisitExpressionStatement ==
    Visiting("ExpressionStatement") /\ Run(visitExpressionStatement(Self, Top(Self).node))

(***************************************************************************)
(* Expressions: every node kind, every operator, over literals, a local    *)
(* (a), a global (g) and a name that may be in the known-constants table   *)
(* (k); then one more level of nesting over a sample of those.             *)
(***************************************************************************)
Seqs(S, n) == UNION {[1..m -> S] : m \in 0..n}

Literals == {Num(v) : v \in (0 - MaxLit)..MaxLit}
Atoms == Literals \cup {Id("a"), Id("g"), Id("k")}
SmallAtoms == {Num(0), Num(1), Id("a"), Id("k")}

Exprs1 ==
    Atoms
    \cup {Un(o, e) : o \in UnaryOps, e \in Atoms}
    \cup {Bin(o, l, r) : o \in BinaryOps, l \in Atoms, r \in Atoms}
    \cup {Call("f", args) : args \in Seqs(Atoms, MaxArgs)}

Inner == {Un("MINUS", Id("a")), Bin("ADD", Id("a"), Id("g")),
          Bin("ADD", Num(1), Num(2)), Bin("LT", Id("a"), Num(1)),
          Bin("DIV", Num(1), Num(0)), Bin("MUL", Id("a"), Num(0)),
          Bin("ADD", Id("a"), Num(0)), Call("f", <<Id("a")>>)}

Exprs2 ==
    {Bin(o, l, r) : o \in BinaryOps, l \in Inner, r \in SmallAtoms}
    \cup {Bin(o, l, r) : o \in BinaryOps, l \in SmallAtoms, r \in Inner}
    \cup {Un(o, e) : o \in UnaryOps, e \in Inner}
    \cup {Call("f", <<e>>) : e \in Inner}

Exprs == Exprs1 \cup Exprs2

\* int main() { int a; <e>; }
ExprUnit(e) == Unit(<<Func("main", Block(<<Decl("a", Null), ExprStmt(e)>>))>>)

InitExpr ==
    /\ InitMembers
    /\ unit \in {ExprUnit(e) : e \in Exprs}
    /\ funcTable = [n \in {"f"} |-> 1]

GenerateOnce == calls = 0 /\ Generate(unit, funcTable)

NextExpr ==
    \/ GenerateOnce
    \/ VisitCompilationUnit
    \/ VisitFunctionDefinition
    \/ VisitBlock
    \/ VisitVariableDeclaration
    \/ VisitExpressionStatement

SpecExpr == InitExpr /\ [][NextExpr]_vars

(***************************************************************************)
(* Reading the emitted text.                                               *)
(***************************************************************************)
\* The lines the visit recorded in ev emitted.
Segment(ev) == SubSeq(output, ev.from + 1, ev.to)

\* Words a line pushes on the operand stack: "addi sp, sp, -4" pushes one,
\* "addi sp, sp, 4k" pops k.
StackEffect(ins) ==
    IF ins[1] = "addi" /\ ins[2] = "sp" /\ ins[3] = "sp"
    THEN IF ins[4] < 0 THEN (0 - ins[4]) \div 4 ELSE 0 - (ins[4] \div 4)
    ELSE 0

RECURSIVE Depth(_)
Depth(lines) ==
    IF lines = << >> THEN 0 ELSE StackEffect(Head(lines)) + Depth(Tail(lines))

IsExpr(node) == node.type \in ExprTypes

\* C1 (as claimed): every expression node visited by generate, with either
\* setting of the optimization switch, emits lines whose net operand-stack
\* effect is exactly one pushed word.
C1_EveryExpressionPushesOne ==
    \A i \in 1..Len(log) :
        IsExpr(log[i].node) => Depth(Segment(log[i])) = 1


\* There is a binary expression the optimizer neither folds nor simplifies.
C1_FailingInput ==
    \E i \in 1..Len(log) :
        /\ optimizationsEnabled
        /\ log[i].node = Bin("LT", Id("a"), Id("g"))
        /\ Segment(log[i]) = << >>

(***************************************************************************)
(* What the claims say about a binary expression, read off the node and    *)
(* the known-constants table.                                              *)
(***************************************************************************)
KnownConstant(e) ==
    \/ e.type = "NumberLiteral"
    \/ e.type = "Identifier" /\ e.name \in DOMAIN constantValues

ConstantValue(e) ==
    IF e.type = "NumberLiteral" THEN e.value ELSE constantValues[e.name]

IsBinary(ev) == ev.node.type = "BinaryExpression"

\* Both operands constant and the operator arithmetic with a usable divisor.
FullyFolded(n) ==
    /\ KnownConstant(n.left) /\ KnownConstant(n.right)
    /\ n.op \in ArithOps
    /\ n.op \in {"DIV", "MOD"} => ConstantValue(n.right) # 0

\* x + 0, x * 1 or x * 0 with a constant right operand.
Simplified(n) ==
    /\ KnownConstant(n.right)
    /\ \/ n.op = "ADD" /\ ConstantValue(n.right) = 0
       \/ n.op = "MUL" /\ ConstantValue(n.right) \in {0, 1}

\* What visiting node emits from the frame table of ev, with the optimization
\* switch set to opt.
Lowered(ev, node, opt) ==
    accept([Self EXCEPT !.output = << >>, !.log = << >>, !.issued = << >>,
                        !.localVariables = ev.localVariables,
                        !.stackOffset = ev.stackOffset,
                        !.optimizationsEnabled = opt], node).output

\* C3 (as claimed): with optimization enabled, a binary expression that is
\* neither fully folded nor simplified emits exactly what it emits with
\* optimization disabled (left, right, pop both, operator, store).
C3_UnfoldedFallsThrough ==
    optimizationsEnabled =>
        \A i \in 1..Len(log) :
            (IsBinary(log[i]) /\ ~FullyFolded(log[i].node) /\ ~Simplified(log[i].node))
                => Segment(log[i]) = Lowered(log[i], log[i].node, FALSE)

\* x + c with c = 0, or x * c with c = 1.
IsIdentityOp(n) ==
    /\ KnownConstant(n.right)
    /\ \/ n.op = "ADD" /\ ConstantValue(n.right) = 0
       \/ n.op = "MUL" /\ ConstantValue(n.right) = 1

\* C4 (as claimed): with optimization enabled, x + 0 and x * 1 emit exactly
\* what x alone emits, for every x, an identifier in the known-constants
\* table included.
C4_IdentityOpEmitsOperand ==
    optimizationsEnabled =>
        \A i \in 1..Len(log) :
            (IsBinary(log[i]) /\ IsIdentityOp(log[i].node))
                => Segment(log[i]) = Lowered(log[i], log[i].node.left, TRUE)

IsKnownConstantIdentifier(e) ==
    e.type = "Identifier" /\ e.name \in DOMAIN constantValues

\* C4 (amended): with optimization enabled, x + 0 and x * 1 emit exactly what
\* x alone emits, for every x that is not an identifier present in the
\* known-constants table.
C4_IdentityOpEmitsOperandUnlessConstantIdentifier ==
    optimizationsEnabled =>
        \A i \in 1..Len(log) :
            (/\ IsBinary(log[i])
             /\ IsIdentityOp(log[i].node)
             /\ ~IsKnownConstantIdentifier(log[i].node.left))
                => Segment(log[i]) = Lowered(log[i], log[i].node.left, TRUE)

\* a * k was lowered with k = 1 in the known-constants table, and emitted the
\* load of the local a.
C4_Witness ==
    /\ optimizationsEnabled
    /\ \E i \in 1..Len(log) :
        /\ log[i].node = Bin("MUL", Id("a"), Id("k"))
        /\ IsIdentityOp(log[i].node)
        /\ Segment(log[i]) = << <<"lw", "t0", -4, "fp">> >> \o PushT0

\* r is a op b as the target computes it: the quotient truncates toward zero,
\* the remainder has the dividend's sign.
IsResult(op, a, b, r) ==
    CASE op = "ADD" -> r - b = a
      [] op = "SUB" -> r + b = a
      [] op = "MUL" -> r = a * b
      [] op = "DIV" -> \E m \in (0 - Abs(b))..Abs(b) :
                          /\ a = r * b + m
                          /\ Abs(m) < Abs(b)
                          /\ m # 0 => ((m < 0) = (a < 0))
      [] op = "MOD" -> \E q \in (0 - Abs(a))..Abs(a) :
                          /\ a = q * b + r
                          /\ Abs(r) < Abs(b)
                          /\ r # 0 => ((r < 0) = (a < 0))

IsLiteralFold(n) ==
    /\ n.type = "BinaryExpression"
    /\ n.op \in ArithOps
    /\ n.left.type = "NumberLiteral"
    /\ n.right.type = "NumberLiteral"
    /\ n.right.value # 0

\* C5: with optimization enabled, a op b over literals with b # 0 and op in
\* {add, sub, mul, div, mod} emits exactly "li t0, r", "addi sp, sp, -4",
\* "sw t0, 0(sp)" with r = a op b, and neither operand is visited.
C5_LiteralFold ==
    optimizationsEnabled =>
        \A i \in 1..Len(log) :
            IsLiteralFold(log[i].node) =>
                /\ Len(Segment(log[i])) = 3
                /\ Segment(log[i])[1][1] = "li"
                /\ Segment(log[i])[1][2] = "t0"
                /\ IsResult(log[i].node.op, log[i].node.left.value,
                            log[i].node.right.value, Segment(log[i])[1][3])
                /\ Segment(log[i])[2] = <<"addi", "sp", "sp", -4>>
                /\ Segment(log[i])[3] = <<"sw", "t0", 0, "sp">>
                /\ \A j \in 1..Len(log) :
                       j # i => ~(log[j].from >= log[i].from /\ log[j].to <= log[i].to
                                  /\ j < i)

\* A division with a negative dividend that does not divide evenly was folded.
C5_Witness ==
    /\ optimizationsEnabled
    /\ \E i \in 1..Len(log) :
        /\ IsLiteralFold(log[i].node)
        /\ log[i].node.op = "DIV"
        /\ log[i].node.left.value = -1
        /\ log[i].node.right.value = 2
        /\ Segment(log[i])[1] = <<"li", "t0", 0>>


(***************************************************************************)
(* Statements: every statement kind listed in the data model except        *)
(* return, nested up to a loop inside a loop, in one or more functions.    *)
(* A function body is a run of declarations followed by one statement.     *)
(***************************************************************************)
MaxDecls == 2      \* a body starts with at most MaxDecls declarations
MaxFuncs == 2      \* a unit has at most MaxFuncs functions

Conds == {Id("a"), Bin("LT", Id("a"), Num(1))}

Simple == {Decl("a", Null), Decl("b", Id("a")),
           Assign("a", Num(1)), Assign("g", Bin("ADD", Id("a"), Num(1))),
           ExprStmt(Call("f", <<Id("a")>>)), ExprStmt(Id("a")),
           Break, Continue}

Few == {Decl("a", Null), Assign("a", Num(1)), Break}

Nested1 ==
    {If(c, t, Null) : c \in Conds, t \in Simple}
    \cup {While(c, b) : c \in Conds, b \in Simple}
    \cup {If(Id("a"), t, e) : t \in Few, e \in Few}
    \cup {Block(<<x, y>>) : x \in Few, y \in Few}

Loops == {While(Id("a"), Break),
          While(Id("a"), Block(<<Break, Continue>>)),
          While(Id("a"), If(Id("a"), Break, Null)),
          If(Id("a"), Break, Continue)}

Nested2 ==
    {While(Id("a"), Block(<<x, y>>)) :
        x \in Loops \cup {Break, Decl("a", Null)},
        y \in {Break, Continue, Decl("b", Null)}}
    \cup {If(Id("a"), x, y) : x \in Loops, y \in Loops}
    \cup {Block(<<x, y>>) : x \in Loops, y \in Loops}

Stmts == Simple \cup Nested1 \cup Nested2

Decls == {Decl("a", Null), Decl("b", Id("a"))}

Bodies == {Block(ds \o <<x>>) : ds \in Seqs(Decls, MaxDecls), x \in Stmts}

\* Bodies of the functions after the first.
LaterBodies == {Block(<<Decl("b", Null), Assign("b", Id("a"))>>),
                Block(<<While(Id("a"), If(Id("b"), Break, Continue))>>)}

StmtUnits ==
    {Unit(<<Func("main", b)>> \o [i \in 1..Len(bs) |-> Func("f", bs[i])]) :
        b \in Bodies, bs \in Seqs(LaterBodies, MaxFuncs - 1)}

InitStmt ==
    /\ InitMembers
    /\ constantValues = EmptyMap
    /\ unit \in StmtUnits
    /\ funcTable = [n \in {"f"} |-> 1]

NextStmt ==
    \/ GenerateOnce
    \/ VisitCompilationUnit
    \/ VisitFunctionDefinition
    \/ VisitBlock
    \/ VisitVariableDeclaration
    \/ VisitAssignmentStatement
    \/ VisitIfStatement
    \/ VisitWhileStatement
    \/ VisitBreakStatement
    \/ VisitContinueStatement
    \/ VisitExpressionStatement

SpecStmt == InitStmt /\ [][NextStmt]_vars

StmtTypes == {"VariableDeclaration", "AssignmentStatement", "Block", "IfStatement",
              "WhileStatement", "BreakStatement", "ContinueStatement",
              "ExpressionStatement"}

\* C2 (as claimed): every statement (declaration, assignment, block, if,
\* while, break, continue, expression-statement), with either setting of the
\* optimization switch, emits lines whose net operand-stack effect is zero
\* and whose running depth never drops below the depth at entry.
C2_StatementsAreStackNeutral ==
    \A i \in 1..Len(log) :
        log[i].node.type \in StmtTypes =>
            /\ Depth(Segment(log[i])) = 0
            /\ \A n \in 1..Len(Segment(log[i])) :
                   Depth(SubSeq(Segment(log[i]), 1, n)) >= 0

\* The while statements whose emitted lines enclose those of log[i].
EnclosingLoops(i) ==
    {j \in 1..Len(log) :
        /\ log[j].node.type = "WhileStatement"
        /\ log[j].from <= log[i].from
        /\ log[i].to <= log[j].to}

InnermostLoop(i) ==
    CHOOSE j \in EnclosingLoops(i) :
        \A k \in EnclosingLoops(i) : log[k].from <= log[j].from

\* A while statement's first line defines its loop label, its last line its
\* endloop label.
LoopLabel(j) == output[log[j].from + 1][2]
EndLabel(j) == output[log[j].to][2]

\* C6 (as claimed): a break inside a loop jumps to the endloop label of its
\* innermost enclosing while, a continue to that while's loop label.
C6_BreakContinueTargetInnermostLoop ==
    \A i \in 1..Len(log) :
        EnclosingLoops(i) # {} =>
            /\ log[i].node.type = "BreakStatement" =>
                   Segment(log[i]) = << <<"j", EndLabel(InnermostLoop(i))>> >>
            /\ log[i].node.type = "ContinueStatement" =>
                   Segment(log[i]) = << <<"j", LoopLabel(InnermostLoop(i))>> >>

\* C7: within one generate call the labels newLabel returns are pairwise
\* distinct, and the counter values they are built from strictly increase
\* across the whole unit (no value repeats, no reset between functions).
C7_LabelsDistinct ==
    \A i \in 1..Len(issued) : \A j \in 1..Len(issued) :
        i < j => /\ issued[i].label # issued[j].label
                 /\ issued[i].counter < issued[j].counter

\* Two functions were lowered, each with a loop and a conditional, and the
\* second function's labels continue the first's numbering.
C7_Witness ==
    /\ Len(issued) = 8
    /\ \E i \in 1..Len(log) : \E j \in 1..Len(log) :
        /\ log[i].node.type = "FunctionDefinition"
        /\ log[j].node.type = "FunctionDefinition"
        /\ i < j
        /\ <<":", "endloop1">> \in {output[n] : n \in log[i].from + 1..log[i].to}
        /\ <<":", "endloop5">> \in {output[n] : n \in log[j].from + 1..log[j].to}


(***************************************************************************)
(* Frame offsets.                                                          *)
(***************************************************************************)
IsFunction(f) == log[f].node.type = "FunctionDefinition"

Latest(S) == CHOOSE j \in S : \A k \in S : k <= j

\* The last function finished before log[i] (0 if none): functions do not
\* nest, so the visits of log[i]'s own function are the ones logged after it.
PreviousFunction(i) ==
    IF \E f \in 1..i - 1 : IsFunction(f)
    THEN Latest({f \in 1..i - 1 : IsFunction(f)})
    ELSE 0

\* The declarations of log[i]'s function lowered up to and including log[i].
DeclsUpTo(i) ==
    {j \in PreviousFunction(i) + 1..i : log[j].node.type = "VariableDeclaration"}

DeclsOf(i, name) == {j \in DeclsUpTo(i) : log[j].node.name = name}

\* The offset in the store a declaration ends with.
StoredOffset(j) == output[log[j].to][3]

\* C8: in each function the k-th declaration lowered stores to offset -4k,
\* re-declarations included; an identifier load and an assignment use the
\* offset of the latest declaration of the name in that function (the global
\* path where there is none); and each function body starts from an empty
\* frame table and a zero offset counter.
C8_FrameOffsets ==
    \A i \in 1..Len(log) :
        /\ log[i].node.type = "VariableDeclaration" =>
               output[log[i].to] = <<"sw", "t0", 0 - 4 * Cardinality(DeclsUpTo(i)), "fp">>
        /\ log[i].node.type = "Identifier" =>
               IF DeclsOf(i, log[i].node.name) = {}
               THEN Segment(log[i])[1] = <<"la", "t0", log[i].node.name>>
               ELSE Segment(log[i])[1] =
                        <<"lw", "t0", StoredOffset(Latest(DeclsOf(i, log[i].node.name))), "fp">>
        /\ log[i].node.type = "AssignmentStatement" =>
               IF DeclsOf(i, log[i].node.variable) = {}
               THEN output[log[i].to] = <<"sw", "t0", 0, "t1">>
               ELSE output[log[i].to] =
                        <<"sw", "t0", StoredOffset(Latest(DeclsOf(i, log[i].node.variable))), "fp">>
        /\ IsFunction(i) =>
               /\ log[i - 1].node = log[i].node.body
               /\ log[i - 1].localVariables = EmptyMap
               /\ log[i - 1].stackOffset = 0

\* a was declared twice and then loaded from the second slot, and a later
\* function's first declaration got offset -4 again.
C8_Witness ==
    \E i \in 1..Len(log) : \E j \in 1..Len(log) :
        /\ log[i].node = Id("a")
        /\ Cardinality(DeclsOf(i, "a")) = 2
        /\ Segment(log[i])[1] = <<"lw", "t0", -8, "fp">>
        /\ i < j
        /\ log[j].node.type = "VariableDeclaration"
        /\ PreviousFunction(j) > i
        /\ StoredOffset(j) = -4


(***************************************************************************)
(* One generator, several generate calls.                                  *)
(***************************************************************************)
RunUnits ==
    {Unit(<< >>),
     Unit(<<Func("main", Block(<<Decl("a", Null),
                                 If(Id("a"), Assign("a", Num(1)), Null)>>))>>),
     Unit(<<Func("main", Block(<<While(Id("a"), If(Id("a"), Break, Continue))>>)),
            Func("f", Block(<<Decl("b", Null), Decl("a", Id("b")),
                              If(Id("k"), ExprStmt(Bin("ADD", Id("a"), Id("k"))),
                                 Return(Id("a")))>>))>>),
     Unit(<<Func("main", Block(<<Decl("b", Num(1)), Assign("a", Id("b")),
                                 Return(Null)>>))>>)}

Init ==
    /\ InitMembers
    /\ unit = Null
    /\ funcTable = EmptyMap

Next ==
    \/ \E u \in RunUnits, table \in FuncTables : Generate(u, table)
    \/ VisitCompilationUnit
    \/ VisitFunctionDefinition
    \/ VisitBlock
    \/ VisitVariableDeclaration
    \/ VisitAssignmentStatement
    \/ VisitIfStatement
    \/ VisitWhileStatement
    \/ VisitBreakStatement
    \/ VisitContinueStatement
    \/ VisitReturnStatement
    \/ VisitExpressionStatement

Spec == Init /\ [][Next]_vars

\* C9: what a generate call returns depends only on the unit, the table and
\* the switch: two calls on one generator with the same unit and table return
\* the same text whatever was generated in between, the first call (on the
\* generator as constructed) included.
C9_GenerateIsPure ==
    \A i \in 1..Len(returned) : \A j \in 1..Len(returned) :
        (returned[i].unit = returned[j].unit /\ returned[i].table = returned[j].table)
            => returned[i].text = returned[j].text

\* The same unit (with labels and locals) was generated before and after a
\* different unit that left labels and frame entries behind.
C9_Witness ==
    /\ Len(returned) = 3
    /\ returned[1].unit = returned[3].unit
    /\ returned[1].table = returned[3].table
    /\ returned[2].unit # returned[1].unit
    /\ \E n \in 1..Len(returned[1].text) : returned[1].text[n] = <<":", "endif1">>
    /\ \E n \in 1..Len(returned[2].text) : returned[2].text[n] = <<":", "endloop1">>
    /\ \E n \in 1..Len(returned[3].text) : returned[3].text[n] = <<":", "endif1">>

(***************************************************************************)
(* Running the emitted code of one function on the target machine.         *)
(* Only the instructions a body of declarations and assignments to locals  *)
(* with literal or local operands emits are needed: li, addi, lw, sw.      *)
(***************************************************************************)
ExecStmts == {Decl("a", Null), Decl("b", Num(1)), Decl("a", Num(2)),
              Assign("a", Num(3)), Assign("b", Num(4))}

\* Every assignment in ss targets a name declared earlier in ss.
AssignsLocals(ss) ==
    \A i \in 1..Len(ss) :
        ss[i].type = "AssignmentStatement" =>
            \E j \in 1..i - 1 :
                ss[j].type = "VariableDeclaration" /\ ss[j].name = ss[i].variable

ExecUnits ==
    {Unit(<<Func("main", Block(ss))>>) :
        ss \in {x \in Seqs(ExecStmts, MaxDecls + 1) : AssignsLocals(x)}}

\* Registers at the call: a return address, the caller's frame pointer and
\* stack pointer.
EntryRegs == [ra |-> 1000, fp |-> 2000, sp |-> 512, t0 |-> 0, t1 |-> 0, a0 |-> 0]

Addrs == {EntryRegs.sp - 4 * n : n \in 0..31}

InitExec ==
    /\ InitMembers
    /\ unit \in ExecUnits
    /\ funcTable = EmptyMap

\* generate has returned; the caller jumps to the function's label.
CallFunction ==
    /\ Len(returned) = 1
    /\ ip = 0
    /\ regs = EmptyMap
    /\ regs' = EntryRegs
    /\ mem' = [a \in Addrs |-> 0]
    /\ ip' = CHOOSE n \in 1..Len(output) : output[n] = <<":", "main">>
    /\ UNCHANGED <<unit, funcTable, optimizationsEnabled, constantValues, output,
                   functions, stackOffset, labelCounter, localVariables,
                   currentFunction, stack, log, issued, returned, calls>>

\* The machine executes the line at ip.
Step ==
    /\ ip > 0
    /\ LET ins == output[ip]
       IN  CASE ins[1] = ":" ->
                    /\ ip' = ip + 1
                    /\ UNCHANGED <<regs, mem>>
             [] ins[1] = "li" ->
                    /\ regs' = [regs EXCEPT ![ins[2]] = ins[3]]
                    /\ ip' = ip + 1
                    /\ UNCHANGED mem
             [] ins[1] = "addi" ->
                    /\ regs' = [regs EXCEPT ![ins[2]] = regs[ins[3]] + ins[4]]
                    /\ ip' = ip + 1
                    /\ UNCHANGED mem
             [] ins[1] = "lw" ->
                    /\ regs' = [regs EXCEPT ![ins[2]] = mem[regs[ins[4]] + ins[3]]]
                    /\ ip' = ip + 1
                    /\ UNCHANGED mem
             [] ins[1] = "sw" ->
                    /\ mem' = [mem EXCEPT ![regs[ins[4]] + ins[3]] = regs[ins[2]]]
                    /\ ip' = ip + 1
                    /\ UNCHANGED regs
             [] ins[1] = "ret" ->
                    /\ ip' = 0
                    /\ UNCHANGED <<regs, mem>>
    /\ UNCHANGED <<unit, funcTable, optimizationsEnabled, constantValues, output,
                   functions, stackOffset, labelCounter, localVariables,
                   currentFunction, stack, log, issued, returned, calls>>

NextExec ==
    \/ GenerateOnce
    \/ VisitCompilationUnit
    \/ VisitFunctionDefinition
    \/ VisitBlock
    \/ VisitVariableDeclaration
    \/ VisitAssignmentStatement
    \/ CallFunction
    \/ Step

SpecExec == InitExec /\ [][NextExec]_vars

\* C10 (as claimed): no local's frame slot is the slot of the saved return
\* address (fp-4) or of the saved frame pointer (fp-8): when the function
\* reaches its ret after the prologue, a body of declarations and assignments
\* to locals, and the epilogue, ra, fp and sp hold the values they had at
\* entry.
C10_ReturnRestoresRegisters ==
    (ip > 0 /\ output[ip] = <<"ret">>) =>
        /\ regs.ra = EntryRegs.ra
        /\ regs.fp = EntryRegs.fp
        /\ regs.sp = EntryRegs.sp

====
